---- MODULE Spec2Model ----
(***************************************************************************)
(* Model of rhasspyasr_kaldi_hermes.AsrHermesMqtt: the session registry,   *)
(* the pool of free transcribers, the audio router, finish_session and     *)
(* the transcribe_proc worker threads.                                     *)
(*                                                                         *)
(* The dispatch path is one thread: a handler of on_message_blocking runs  *)
(* to its end before the next message is taken.  The only place where a    *)
(* handler stops is result_event.wait(timeout) in finish_session, a        *)
(* blocking wait of that thread; there the worker threads are the only     *)
(* ones that move.  The worker threads interleave freely, one step per     *)
(* access to the state they share with the dispatch thread.                *)
(***************************************************************************)
EXTENDS Integers, Sequences, FiniteSets, TLC

\* ----------------------------------------------------------------- bounds
MaxWorkers == 2          \* TranscriberInfo objects ever constructed
MaxFrames == 2           \* audio frames routed to the bindings that are registered
MaxFaults == 1           \* calls into the engine or the recorder that fail
MaxTokens == 3           \* tokens of one result of the engine
MaxDicts == 2            \* base dictionaries
MaxLines == 1            \* lines of a dictionary file
MaxTrains == 2           \* calls of handle_train
MaxMtime == 2            \* modification times of the dictionary files

Workers == 1..MaxWorkers
SessionIds == {"s1", "s2"}
Sites == {"A", "B"}
\* raw audio of one frame: one byte
AudioChunks == {<<b>> : b \in 1..MaxFrames}
\* transcription texts an engine may return ("" is the empty text)
Texts == {"", "go"}

\* ------------------------------------------------------- optional values
\* Python's None is the empty tuple, a present value v is <<v>>.
None == <<>>
Some(v) == <<v>>
IsNone(o) == Len(o) = 0
NotNone(o) == Len(o) > 0

Min(a, b) == IF a < b THEN a ELSE b

RECURSIVE Flatten(_)
\* b"".join(chunks)
Flatten(chunks) ==
    IF Len(chunks) = 0 THEN <<>> ELSE Head(chunks) \o Flatten(Tail(chunks))

IsPrefix(s, t) == Len(s) <= Len(t) /\ SubSeq(t, 1, Len(s)) = s

\* ------------------------------------------------------------ conversions
\* A frame on the bus is a WAV container around raw audio.
Wav(c) == [riff |-> TRUE, data |-> c]
WavFrames == {Wav(c) : c \in AudioChunks}
maybe_convert_wav(wav) == wav.data
to_wav_bytes(audio) == [riff |-> TRUE, data |-> audio]

\* bool(frames) of an item taken from the frame queue: None and b"" are falsy
Truthy(item) == NotNone(item) /\ Len(item[1]) > 0

\* ------------------------------------------------------------- data model
\* TranscriberInfo(reuse=r) right after construction
TranscriberInfo(r) ==
    [transcriber |-> "None",        \* "None" | "running" | "stopped"
     recorder |-> None,             \* None | Some([chunks |-> <<chunk, ...>>])
     frame_queue |-> <<>>,          \* items: None (sentinel) | Some(chunk)
     ready_event |-> FALSE,
     result |-> None,               \* None | Some([text |-> t])
     result_event |-> FALSE,
     result_sent |-> FALSE,
     start_listening |-> None,      \* None | Some(AsrStartListening)
     audio_buffer |-> None,         \* None | Some(bytes)
     reuse |-> r]

AsrStartListening(site, sid, sos, sac) ==
    [site_id |-> site, session_id |-> sid, stop_on_silence |-> sos,
     send_audio_captured |-> sac]

AsrStopListening(site, sid) == [site_id |-> site, session_id |-> sid]

\* a token of the engine's result
Token(token, likelihood, start_time, end_time) ==
    [token |-> token, likelihood |-> likelihood,
     start_time |-> start_time, end_time |-> end_time]

\* the tokens the engine returns with a text: none with an empty text, the
\* text as one token otherwise
TokensOf(t) == IF t = "" THEN None ELSE Some(<<Token(t, 1, 0, 1)>>)

Transcription(t) == [text |-> t, tokens |-> TokensOf(t)]

\* events a handler yields; w, sos and routed are bookkeeping of the model:
\* the worker the event is about, the stop_on_silence flag of its binding
\* and the audio routed to the binding when the event was built
Event(type, site, sid, w, text, wav, sos, rt) ==
    [type |-> type, site_id |-> site, session_id |-> sid, w |-> w,
     text |-> text, wav |-> wav, sos |-> sos, routed |-> rt,
     asr_tokens |-> None]

\* ------------------------------------------------------------------ state
VARIABLES
    reuse_transcribers,   \* constructor argument, fixed
    sessions,             \* self.sessions: <<[id, info], ...>> in insertion order
    free_transcribers,    \* self.free_transcribers: list of workers
    info,                 \* the TranscriberInfo objects, by worker
    pc,                   \* position of each transcribe_proc thread
    streamed,             \* chunks audio_stream has yielded for the current binding
    created,              \* TranscriberInfo objects constructed so far
    routed,               \* chunks enqueued for the worker's current binding
    emitted,              \* events emitted for the worker's current binding
    out,                  \* events yielded by the running handler
    faults,               \* failed calls into the engine or the recorder so far
    k,                    \* the dispatch thread: position and locals
    tk_result,            \* finish_session on its own: transcription
    tk_emitted,           \* finish_session on its own: None | Some(asr_tokens)
    no_overwrite_train,   \* constructor argument, fixed
    base_dictionaries,    \* self.base_dictionaries: mtime_ns and pronunciations
    dict_files,           \* the files at the paths of the base dictionaries
    trained,              \* the pronunciations of the last rhasspyasr_kaldi.train
    train_out,            \* the event of the last handle_train
    trains,               \* calls of handle_train so far
    enabled,              \* self.enabled
    disabled_reasons      \* self.disabled_reasons

session_vars == <<reuse_transcribers, sessions, free_transcribers, info, pc,
                  streamed, created, routed, emitted, out, faults, k>>
token_vars == <<tk_result, tk_emitted>>
train_vars == <<no_overwrite_train, base_dictionaries, dict_files, trained,
                train_out, trains>>
toggle_vars == <<enabled, disabled_reasons>>
vars == <<session_vars, token_vars, train_vars, toggle_vars>>

\* what the handlers of the sessions and the worker threads leave alone
fixed == <<reuse_transcribers, token_vars, train_vars, toggle_vars>>


\* the dispatch thread between two messages
IdleK ==
    [pc |-> "idle",            \* "idle" | "run" | "wait" | "raise"
     op |-> "none",            \* the handler: "start" | "stop" | "frame"
     w |-> 0,                  \* finish_session: info
     site_id |-> "",           \* finish_session: site_id
     session_id |-> "",        \* finish_session: session_id
     audio |-> <<>>,           \* finish_session: audio_data
     msg |-> None,             \* start_listening: message
     rest |-> <<>>,            \* handle_audio_frame: targets still to visit
     frame |-> <<>>,           \* handle_audio_frame: audio_data
     \* bookkeeping of the model, about the running handler
     bcast |-> FALSE,          \* the frame named no session
     pre |-> "none",           \* stop_listening: "absent" | "sent" | "unsent"
     acq |-> "none",           \* start_listening: "pooled" | "new"
     sent_before |-> {},       \* workers with result_sent when the handler began
     silenced |-> {},          \* workers whose recorder reported a command
     failed |-> {},            \* workers whose processing raised
     targets |-> {}]           \* workers the frame is for

\* per binding: recording-finished, text-captured and audio-captured events
\* emitted, and calls of finish_session
NoEmitted == [rf |-> 0, tc |-> 0, ac |-> 0, fin |-> 0]

\* the state the dispatch thread works on, as one value
Machine ==
    [sessions |-> sessions, free_transcribers |-> free_transcribers,
     info |-> info, pc |-> pc, created |-> created, routed |-> routed,
     emitted |-> emitted, streamed |-> streamed, out |-> out,
     faults |-> faults, k |-> k]

Install(M) ==
    /\ sessions' = M.sessions
    /\ free_transcribers' = M.free_transcribers
    /\ info' = M.info
    /\ pc' = M.pc
    /\ created' = M.created
    /\ routed' = M.routed
    /\ emitted' = M.emitted
    /\ streamed' = M.streamed
    /\ out' = M.out
    /\ faults' = M.faults
    /\ k' = M.k

\* the handler's result becomes the state
Apply(M) == \E N \in {M} : N.faults <= MaxFaults /\ Install(N)

\* ------------------------------------------------------ the sessions dict
HasSession(ss, sid) == \E n \in 1..Len(ss) : ss[n].id = sid
SessionIndex(ss, sid) == CHOOSE n \in 1..Len(ss) : ss[n].id = sid
SessionInfo(ss, sid) == ss[SessionIndex(ss, sid)].info
\* self.sessions.pop(sid, None): what is left
PopSession(ss, sid) ==
    IF HasSession(ss, sid)
    THEN LET n == SessionIndex(ss, sid)
         IN SubSeq(ss, 1, n - 1) \o SubSeq(ss, n + 1, Len(ss))
    ELSE ss
\* self.sessions[sid] = w
PutSession(ss, sid, w) ==
    IF HasSession(ss, sid)
    THEN [ss EXCEPT ![SessionIndex(ss, sid)].info = w]
    ELSE Append(ss, [id |-> sid, info |-> w])
Registered == {sessions[n].info : n \in 1..Len(sessions)}
Pooled == {free_transcribers[n] : n \in 1..Len(free_transcribers)}

\* ------------------------------------------------------- silence detector
\* recorder_factory()
NewRecorder == [chunks |-> <<>>]
\* recorder.start(): a new voice command, nothing recorded
recorder_start(rec) == [rec EXCEPT !.chunks = <<>>]
\* recorder.process_chunk(chunk): the recorder keeps the audio; whether it
\* reports the end of the command is the detector's decision (an input)
process_chunk(rec, chunk) == [rec EXCEPT !.chunks = Append(@, chunk)]
\* recorder.stop(): the trimmed audio, here the recorded chunks without the
\* first `trim` of them; the recorder is left empty
recorder_stop_audio(rec, trim) ==
    LET n == Len(rec.chunks)
    IN Flatten(SubSeq(rec.chunks, Min(trim, n) + 1, n))
recorder_stop(rec) == [rec EXCEPT !.chunks = <<>>]

Bump(n) == Min(n + 1, 2)

\* ---------------------------------------------------------- finish_session
\* a finish_session that does not look at result_sent
ResultSentIgnored(i) == FALSE

\* if not info.result_sent
ResultSent(i) == i.result_sent

\* finish_session up to result_event.wait: k.pc is "wait" when it blocks,
\* "raise" when an assertion fails, unchanged when result_sent was set.
finish_session_begin(M0, w, site, sid, trim) ==
    LET M == [M0 EXCEPT !.emitted[w].fin = Bump(@)]
        i == M.info[w]
        has_rec == NotNone(i.recorder)
        audio_data == IF has_rec THEN recorder_stop_audio(i.recorder[1], trim)
                      ELSE i.audio_buffer[1]
        i1 == IF has_rec THEN [i EXCEPT !.recorder = Some(recorder_stop(@[1]))]
              ELSE i
        sos == NotNone(i.start_listening) /\ i.start_listening[1].stop_on_silence
        rf == Event("recordingFinished", site, sid, w, "", None, sos,
                    Flatten(M.routed[w]))
    IN IF ~has_rec /\ IsNone(i.audio_buffer)
       THEN [M EXCEPT !.k.pc = "raise"]
       ELSE IF ~ResultSent(i)
       THEN [M EXCEPT !.info[w] = [i1 EXCEPT !.result_sent = TRUE,
                                             !.frame_queue = Append(@, None)],
                      !.out = Append(@, rf),
                      !.emitted[w].rf = Bump(@),
                      !.k.pc = "wait", !.k.w = w, !.k.site_id = site,
                      !.k.session_id = sid, !.k.audio = audio_data]
       ELSE [M EXCEPT !.info[w] = i1]

\* the end of a range that leaves out the separating space
RangeEndWithoutSpace(range_start, ps_token) == range_start + Len(ps_token.token)

\* range_end = range_start + len(ps_token.token) + 1
RangeEnd(range_start, ps_token) == range_start + Len(ps_token.token) + 1

RECURSIVE asr_inner_tokens(_, _)
\* for ps_token in transcription.tokens: asr_inner_tokens.append(AsrToken(...));
\* range_start = range_end
asr_inner_tokens(tokens, range_start) ==
    IF Len(tokens) = 0 THEN <<>>
    ELSE LET ps_token == Head(tokens)
             range_end == RangeEnd(range_start, ps_token)
         IN <<[value |-> ps_token.token,
               confidence |-> ps_token.likelihood,
               range_start |-> range_start,
               range_end |-> range_end,
               time |-> [start |-> ps_token.start_time,
                         end |-> ps_token.end_time]]>>
            \o asr_inner_tokens(Tail(tokens), range_end)

\* asr_tokens of the text-captured event: None, or one level of tokens
asr_tokens(transcription) ==
    IF NotNone(transcription.tokens) /\ Len(transcription.tokens[1]) > 0
    THEN Some(<<asr_inner_tokens(transcription.tokens[1], 0)>>)
    ELSE None

\* a finish_session that reports a transcription only when there is a text
CapturedUnlessEmpty(tc, ac, send_audio_captured) ==
    IF tc.text = "" THEN <<>>
    ELSE IF send_audio_captured THEN <<tc, ac>> ELSE <<tc>>

\* a finish_session that sends the audio before the text
AudioBeforeText(tc, ac, send_audio_captured) ==
    IF send_audio_captured THEN <<ac, tc>> ELSE <<tc>>

\* the events after the wait: text captured, then the audio if the start
\* request asked for it
CapturedEvents(tc, ac, send_audio_captured) ==
    IF send_audio_captured THEN <<tc, ac>> ELSE <<tc>>

\* a finish_session that leaves the worker reusable when the wait times out
ReuseAfterWaitKept(reuse, timeout) == reuse

\* if not result_success: info.reuse = False
ReuseAfterWait(reuse, timeout) == IF timeout THEN FALSE ELSE reuse

\* finish_session from the return of result_event.wait to its end
finish_session_end(M, timeout) ==
    LET w == M.k.w
        i == M.info[w]
        transcription == i.result
        text == IF NotNone(transcription) THEN transcription[1].text ELSE ""
        sl == i.start_listening[1]
        rt == Flatten(M.routed[w])
        tc == [Event("textCaptured", M.k.site_id, M.k.session_id, w, text,
                     None, sl.stop_on_silence, rt)
                  EXCEPT !.asr_tokens = IF NotNone(transcription)
                                        THEN asr_tokens(transcription[1])
                                        ELSE None]
        ac == Event("audioCaptured", M.k.site_id, M.k.session_id, w, "",
                    Some(to_wav_bytes(M.k.audio)), sl.stop_on_silence, rt)
    IN [M EXCEPT !.info[w].reuse = ReuseAfterWait(@, timeout),
                 !.out = @ \o CapturedEvents(tc, ac, sl.send_audio_captured),
                 !.emitted[w] = [@ EXCEPT !.tc = Bump(@),
                                          !.ac = IF sl.send_audio_captured
                                                 THEN Bump(@) ELSE @],
                 !.k.pc = "run"]

\* An info object that is neither registered nor pooled is referenced by its
\* worker thread only.  The thread uses transcriber, frame_queue, ready_event,
\* result, result_event and reuse; the other fields are read by nobody any
\* more and leave the state (they take the values of the constructor).
Forget(M, w) ==
    [M EXCEPT !.info[w] = [@ EXCEPT !.recorder = None,
                                    !.result_sent = FALSE,
                                    !.start_listening = None,
                                    !.audio_buffer = None],
              !.routed[w] = <<>>,
              !.streamed[w] = <<>>,
              !.emitted[w] = NoEmitted]

\* ---------------------------------------------------------- stop_listening
\* a stop_listening that pools every worker with an engine
CanPoolWithEngine(i) == i.transcriber # "None"

\* if info.reuse and (info.transcriber is not None)
CanPool(i) == i.reuse /\ i.transcriber # "None"

\* a stop_listening that pools the worker with what its queue holds
NotDrained(frame_queue) == frame_queue

\* while info.frame_queue.qsize() > 0: info.frame_queue.get_nowait()
Drained(frame_queue) == <<>>

\* stop_listening after finish_session: reset the worker and pool it
stop_listening_end(M, w) ==
    LET i == M.info[w]
    IN IF CanPool(i)
       THEN [M EXCEPT !.info[w] = [i EXCEPT !.result = None,
                                            !.result_event = FALSE,
                                            !.result_sent = FALSE,
                                            !.start_listening = None,
                                            !.audio_buffer = None,
                                            !.frame_queue = Drained(@)],
                      !.routed[w] = <<>>,
                      !.streamed[w] = <<>>,
                      !.emitted[w] = NoEmitted,
                      !.free_transcribers = Append(@, w)]
       ELSE Forget(M, w)

\* a pop that takes the session registered last when the id is not there
PoppedOrLast(ss, session_id) ==
    IF HasSession(ss, session_id) THEN Some(SessionInfo(ss, session_id))
    ELSE IF Len(ss) > 0 THEN Some(ss[Len(ss)].info) ELSE None

\* self.sessions.pop(message.session_id, None): the info that is taken out
Popped(ss, session_id) ==
    IF HasSession(ss, session_id) THEN Some(SessionInfo(ss, session_id))
    ELSE None

\* stop_listening, up to the first wait of its finish_session
stop_listening(M, message, trim) ==
    IF IsNone(Popped(M.sessions, message.session_id))
    THEN M
    ELSE LET w == Popped(M.sessions, message.session_id)[1]
             M1 == [M EXCEPT !.sessions = PopSession(@, message.session_id)]
             M2 == finish_session_begin(M1, w, message.site_id,
                                        message.session_id, trim)
         IN CASE M2.k.pc = "wait" -> M2
              [] M2.k.pc = "raise" ->
                   Forget([M2 EXCEPT !.k.pc = "run",
                              !.out = Append(@, Event("error", message.site_id,
                                  message.session_id, w, "", None, FALSE, <<>>))],
                          w)
              [] OTHER -> stop_listening_end(M2, w)

\* --------------------------------------------------------- start_listening
\* a start_listening that does not look into the pool
PoolIgnored(M) == FALSE

\* if self.free_transcribers
FromPool(M) == Len(M.free_transcribers) > 0

\* a start_listening that reads the last worker of the pool and leaves it
\* there
PoolAfterPeek(free) == free

\* info = self.free_transcribers.pop(): what is left
PoolAfterPop(free) == SubSeq(free, 1, Len(free) - 1)

\* a start_listening that registers the session before it sets it up
SetupErrorRegistered(M, message, w) ==
    [M EXCEPT !.faults = @ + 1,
              !.out = Append(@, Event("error", message.site_id,
                                      message.session_id, w, "", None, FALSE,
                                      <<>>)),
              !.sessions = PutSession(@, message.session_id, w)]

\* except Exception: the error event of start_listening; the worker that was
\* acquired is neither registered nor pooled
SetupError(M, message, w) ==
    Forget([M EXCEPT !.faults = @ + 1,
                     !.out = Append(@, Event("error", message.site_id,
                                             message.session_id, w, "", None,
                                             FALSE, <<>>))],
           w)

\* start_listening from the acquisition of a worker to its end; fail says
\* which call of the setup raises: "none" | "factory" | "start"
start_listening_setup(M, message, fail) ==
    LET from_pool == FromPool(M)
        w == IF from_pool THEN M.free_transcribers[Len(M.free_transcribers)]
             ELSE M.created + 1
        i0 == IF from_pool THEN M.info[w] ELSE TranscriberInfo(reuse_transcribers)
        i1 == [i0 EXCEPT !.start_listening = Some(message), !.ready_event = TRUE]
        factory_raises ==
            message.stop_on_silence /\ IsNone(i0.recorder) /\ fail = "factory"
        start_raises == message.stop_on_silence /\ fail = "start"
        i2 == IF message.stop_on_silence
              THEN IF factory_raises THEN i1
                   ELSE IF start_raises
                   THEN [i1 EXCEPT !.recorder =
                            IF IsNone(@) THEN Some(NewRecorder) ELSE @]
                   ELSE [i1 EXCEPT !.recorder =
                            IF IsNone(@) THEN Some(recorder_start(NewRecorder))
                            ELSE Some(recorder_start(@[1]))]
              ELSE [i1 EXCEPT !.audio_buffer = Some(<<>>)]
        M1 == [M EXCEPT
                 !.free_transcribers =
                     IF from_pool THEN PoolAfterPop(@) ELSE @,
                 !.created = IF from_pool THEN @ ELSE @ + 1,
                 !.pc[w] = IF from_pool THEN @ ELSE "construct",
                 !.info[w] = i2,
                 !.routed[w] = <<>>,
                 !.streamed[w] = <<>>,
                 !.emitted[w] = NoEmitted,
                 !.k.acq = IF from_pool THEN "pooled" ELSE "new",
                 !.k.w = w]
    IN IF factory_raises \/ start_raises
       THEN SetupError(M1, message, w)
       ELSE [M1 EXCEPT !.sessions = PutSession(@, message.session_id, w)]

\* a start_listening that does not look for a session with the same id
SessionOverwritten(ss, session_id) == FALSE

\* if message.session_id in self.sessions
SessionExists(ss, session_id) == HasSession(ss, session_id)

\* start_listening, up to the first wait of the stop of an existing session
start_listening(M, message, fail, trim) ==
    IF SessionExists(M.sessions, message.session_id)
    THEN LET M1 == stop_listening(M,
                       AsrStopListening(message.site_id, message.session_id),
                       trim)
         IN IF M1.k.pc = "wait" THEN M1
            ELSE start_listening_setup(M1, message, fail)
    ELSE start_listening_setup(M, message, fail)

\* ------------------------------------------------------ handle_audio_frame
ProcessOutcomes == {"none", "command", "raise"}

\* a loop that ends at the first exception
AbortAfterError(rest) == <<>>

\* the try statement is inside the loop: after an exception the loop goes on
\* with the targets that are left
RestAfterError(rest) == rest

\* a router that does not look at the site of a session
AnySite(start_listening_, site_id) == FALSE

\* if info.start_listening.site_id != site_id: continue
OtherSite(start_listening_, site_id) == start_listening_.site_id # site_id

RECURSIVE frame_loop(_, _, _, _, _, _)
\* the loop over target_sessions, up to the first wait of a finish_session;
\* oracle[w] is what info.recorder.process_chunk does for worker w
frame_loop(M, target_sessions, site_id, audio_data, oracle, trim) ==
    IF Len(target_sessions) = 0 THEN M
    ELSE
    LET target_id == Head(target_sessions).id
        w == Head(target_sessions).info
        i == M.info[w]
        rest == Tail(target_sessions)
        Err(MM) == [MM EXCEPT !.out = Append(@, Event("error", site_id,
                                       target_id, w, "", None, FALSE, <<>>)),
                              !.k.failed = @ \cup {w},
                              !.k.pc = "run"]
        Go(MM) == frame_loop(MM, rest, site_id, audio_data, oracle, trim)
        GoErr(MM) == frame_loop(Err(MM), RestAfterError(rest), site_id,
                                audio_data, oracle, trim)
    IN IF IsNone(i.start_listening) THEN GoErr(M)
       ELSE IF OtherSite(i.start_listening[1], site_id) THEN Go(M)
       ELSE
       LET M1 == [M EXCEPT !.info[w].frame_queue = Append(@, Some(audio_data)),
                           !.routed[w] = Append(@, audio_data)]
       IN IF NotNone(i.recorder)
          THEN IF oracle[w] = "raise"
               THEN GoErr([M1 EXCEPT !.faults = @ + 1])
               ELSE
               LET M2 == [M1 EXCEPT !.info[w].recorder =
                                       Some(process_chunk(@[1], audio_data))]
               IN IF oracle[w] = "command"
                  THEN LET M3 == finish_session_begin(
                                     [M2 EXCEPT !.k.silenced = @ \cup {w}],
                                     w, site_id, target_id, trim)
                       IN CASE M3.k.pc = "wait" -> [M3 EXCEPT !.k.rest = rest]
                            [] M3.k.pc = "raise" -> GoErr(M3)
                            [] OTHER -> Go(M3)
                  ELSE Go(M2)
          ELSE IF IsNone(i.audio_buffer) THEN GoErr(M1)
               ELSE Go([M1 EXCEPT !.info[w].audio_buffer =
                                      Some(@[1] \o audio_data)])

\* a router that hands every frame to every open session
AllSessions(ss, session_id) == ss

\* the sessions a frame is for: target_sessions
TargetSessions(ss, session_id) ==
    IF IsNone(session_id) THEN ss
    ELSE <<[id |-> session_id[1], info |-> SessionInfo(ss, session_id[1])]>>

\* the workers among them whose start request names the frame's site
MatchingTargets(M, site_id, session_id) ==
    LET ts == TargetSessions(M.sessions, session_id)
    IN {ts[n].info : n \in {m \in 1..Len(ts) :
            /\ NotNone(M.info[ts[m].info].start_listening)
            /\ M.info[ts[m].info].start_listening[1].site_id = site_id}}

\* handle_audio_frame(frame_wav_bytes, site_id, session_id)
handle_audio_frame(M, frame_wav_bytes, site_id, session_id, oracle, trim) ==
    IF Len(M.sessions) = 0 THEN M
    ELSE LET audio_data == maybe_convert_wav(frame_wav_bytes)
         IN frame_loop([M EXCEPT !.k.frame = audio_data,
                                 !.k.site_id = site_id,
                                 !.k.targets =
                                     MatchingTargets(M, site_id, session_id)],
                       TargetSessions(M.sessions, session_id),
                       site_id, audio_data, oracle, trim)

\* ------------------------------------------------------ the dispatch thread
\* a handler has run until it blocks or ends; when it has ended the
\* dispatch thread is ready for the next message
Suspend(M) ==
    IF M.k.pc = "wait" THEN M ELSE [M EXCEPT !.k = IdleK, !.out = <<>>]

Begin(op) == [Machine EXCEPT
                 !.k = [IdleK EXCEPT !.pc = "run", !.op = op,
                           !.sent_before = {w \in Workers : info[w].result_sent}]]

SetupFailures == {"none", "factory", "start"}
Trims == 0..1

\* what the registry holds for a session id when a handler begins
Pre(session_id) ==
    IF ~HasSession(sessions, session_id) THEN "absent"
    ELSE IF info[SessionInfo(sessions, session_id)].result_sent
    THEN "sent" ELSE "unsent"

\* start_listening(message) from this state, up to its first wait
StartHandled(message, fail, trim) ==
    start_listening([Begin("start") EXCEPT !.k.msg = Some(message),
                                           !.k.pre = Pre(message.session_id)],
                    message, fail, trim)

\* stop_listening(message) from this state, up to its first wait
StopHandled(message, trim) ==
    stop_listening([Begin("stop") EXCEPT !.k.session_id = message.session_id,
                                         !.k.pre = Pre(message.session_id)],
                   message, trim)

\* on_message_blocking: AsrStartListening
StartListening(message, fail, trim) ==
    /\ k.pc = "idle"
    /\ created < MaxWorkers \/ Len(free_transcribers) > 0
    /\ Apply(Suspend(StartHandled(message, fail, trim)))
    /\ UNCHANGED fixed

\* on_message_blocking: AsrStopListening
StopListening(message, trim) ==
    /\ k.pc = "idle"
    /\ Apply(Suspend(StopHandled(message, trim)))
    /\ UNCHANGED fixed

RECURSIVE RoutedTotal(_)
RoutedTotal(ws) ==
    IF ws = {} THEN 0
    ELSE LET w == CHOOSE x \in ws : TRUE
         IN Len(routed[w]) + RoutedTotal(ws \ {w})

\* the frames of the model stay within MaxFrames over the registered bindings
RoomFor(site_id, session_id) ==
    RoutedTotal(Registered)
        + Cardinality(MatchingTargets(Machine, site_id, session_id)) <= MaxFrames

\* a service that takes audio whether it is enabled or not
AlwaysListening == TRUE

\* if self.enabled
Listening == enabled

\* on_message_blocking, AudioFrame: the handler up to its first wait
AudioFrameHandled(wav_bytes, site_id, oracle, trim) ==
    LET M == [Begin("frame") EXCEPT !.k.bcast = TRUE]
    IN IF Listening
       THEN handle_audio_frame(M, wav_bytes, site_id, None, oracle, trim)
       ELSE M

\* on_message_blocking, AudioSessionFrame: the handler up to its first wait
AudioSessionFrameHandled(wav_bytes, site_id, session_id, oracle, trim) ==
    LET M == [Begin("frame") EXCEPT !.k.session_id = session_id]
    IN IF Listening /\ HasSession(sessions, session_id)
       THEN handle_audio_frame(M, wav_bytes, site_id, Some(session_id),
                               oracle, trim)
       ELSE M

\* on_message_blocking: AudioFrame, for every session of the site
AudioFrame(wav_bytes, site_id, oracle, trim) ==
    /\ k.pc = "idle"
    /\ RoomFor(site_id, None)
    /\ Apply(Suspend(AudioFrameHandled(wav_bytes, site_id, oracle, trim)))
    /\ UNCHANGED fixed

\* on_message_blocking: AudioSessionFrame, for the session named in the topic
AudioSessionFrame(wav_bytes, site_id, session_id, oracle, trim) ==
    /\ k.pc = "idle"
    /\ HasSession(sessions, session_id) => RoomFor(site_id, Some(session_id))
    /\ Apply(Suspend(AudioSessionFrameHandled(wav_bytes, site_id, session_id,
                                              oracle, trim)))
    /\ UNCHANGED fixed

\* ------------------------------------------------------------- the toggles
\* AsrToggleReason
Reasons == {"UNKNOWN", "dialogueSession", "playAudio"}

toggle_frame == <<session_vars, token_vars, train_vars>>

\* a toggle-on that enables the service whatever reasons are left
EnabledAnyway(reasons, was) == TRUE

\* if self.disabled_reasons: (still disabled) else: self.enabled = True
EnabledAfterOn(reasons, was) == IF reasons # {} THEN was ELSE TRUE

\* on_message_blocking: AsrToggleOn
ToggleOn(reason) ==
    /\ k.pc = "idle"
    /\ disabled_reasons' = IF reason = "UNKNOWN" THEN {}
                           ELSE disabled_reasons \ {reason}
    /\ enabled' = EnabledAfterOn(disabled_reasons', enabled)
    /\ UNCHANGED toggle_frame

\* on_message_blocking: AsrToggleOff
ToggleOff(reason) ==
    /\ k.pc = "idle"
    /\ enabled' = FALSE
    /\ disabled_reasons' = disabled_reasons \cup {reason}
    /\ UNCHANGED toggle_frame

\* the handler goes on after result_event.wait(timeout) has returned
Resume(M, fail, oracle, trim) ==
    CASE M.k.op = "stop" -> stop_listening_end(M, M.k.w)
      [] M.k.op = "start" ->
           start_listening_setup(stop_listening_end(M, M.k.w), M.k.msg[1], fail)
      [] M.k.op = "frame" ->
           frame_loop(M, M.k.rest, M.k.site_id, M.k.frame, oracle, trim)

\* result_event.wait returns True: the worker has set the event
ResultWaitSignalled(fail, oracle, trim) ==
    /\ k.pc = "wait"
    /\ info[k.w].result_event
    /\ Apply(Suspend(Resume(finish_session_end(Machine, FALSE),
                            fail, oracle, trim)))
    /\ UNCHANGED fixed

\* result_event.wait returns False: session_result_timeout has passed
ResultWaitTimeout(fail, oracle, trim) ==
    /\ k.pc = "wait"
    /\ ~info[k.w].result_event
    /\ Apply(Suspend(Resume(finish_session_end(Machine, TRUE),
                            fail, oracle, trim)))
    /\ UNCHANGED fixed

\* ------------------------------------------------- transcribe_proc threads
\* The info objects the dispatch thread can reach.
Referenced ==
    Registered \cup Pooled \cup {k.w} \cup {k.rest[n].info : n \in 1..Len(k.rest)}

\* A thread whose info object the dispatch thread cannot reach shares no
\* state with any other thread: its steps commute with all other steps.  The
\* model runs the steps such a thread can take for certain before any other
\* step, so that one interleaving stands for all of them.
Detached(w) ==
    /\ w \notin Referenced
    /\ \/ pc[w] \in {"construct", "signal", "exc_signal"}
       \/ pc[w] = "ready_wait" /\ info[w].ready_event
       \/ pc[w] = "decode" /\ Len(info[w].frame_queue) > 0
NoneDetached == \A w \in Workers : ~Detached(w)
Turn(w) == \A v \in Workers : Detached(v) => v >= w /\ Detached(w)

worker_frame == <<sessions, free_transcribers, created, routed, emitted,
                  out, k, fixed>>

\* a call into the engine fails
Fault == faults < MaxFaults /\ faults' = faults + 1

\* a write of the thread to its info object
Store(w, i) == info' = [info EXCEPT ![w] = i]

\* a thread that ends without the signal
NoSignal(i) == i

\* info.result_event.set()
Signal(i) == [i EXCEPT !.result_event = TRUE]

\* except Exception: info.reuse = False; the transcriber, if there is one, is
\* stopped; info.transcriber = None; info.result = Transcription(text="", ...)
Except(i) ==
    [i EXCEPT !.reuse = FALSE, !.transcriber = "None",
              !.result = Some(Transcription(""))]

\* info.transcriber = transcriber_factory(port_num=...); assert it is not
\* None.  ok is false when the factory raises or returns None.
WorkerConstruct(w, ok) ==
    /\ Turn(w)
    /\ pc[w] = "construct"
    /\ IF ok
       THEN /\ Store(w, [info[w] EXCEPT !.transcriber = "running"])
            /\ pc' = [pc EXCEPT ![w] = "ready_wait"]
            /\ UNCHANGED faults
       ELSE /\ Store(w, Except(info[w]))
            /\ pc' = [pc EXCEPT ![w] = "exc_signal"]
            /\ Fault
    /\ UNCHANGED <<streamed, worker_frame>>

\* info.ready_event.wait(); info.ready_event.clear()
WorkerReady(w) ==
    /\ Turn(w)
    /\ pc[w] = "ready_wait"
    /\ info[w].ready_event
    /\ Store(w, [info[w] EXCEPT !.ready_event = FALSE])
    /\ pc' = [pc EXCEPT ![w] = "decode"]
    /\ UNCHANGED <<streamed, faults, worker_frame>>

\* audio_stream: frames = frame_queue.get(); while frames: yield frames
WorkerPull(w) ==
    /\ Turn(w)
    /\ pc[w] = "decode"
    /\ Len(info[w].frame_queue) > 0
    /\ Truthy(Head(info[w].frame_queue))
    /\ Store(w, [info[w] EXCEPT !.frame_queue = Tail(@)])
    /\ streamed' = IF w \in Referenced
                   THEN [streamed EXCEPT
                            ![w] = Append(@, Head(info[w].frame_queue)[1])]
                   ELSE streamed
    /\ UNCHANGED <<pc, faults, worker_frame>>

\* audio_stream ends at a falsy item; transcribe_stream returns result;
\* assert result is not None and result.text; info.result = result
WorkerTranscribed(w, result) ==
    /\ Turn(w)
    /\ pc[w] = "decode"
    /\ Len(info[w].frame_queue) > 0
    /\ ~Truthy(Head(info[w].frame_queue))
    /\ IF NotNone(result) /\ result[1].text # ""
       THEN /\ Store(w, [info[w] EXCEPT !.frame_queue = Tail(@),
                                         !.result = result])
            /\ pc' = [pc EXCEPT ![w] = "signal"]
            /\ UNCHANGED faults
       ELSE /\ Store(w, Except([info[w] EXCEPT !.frame_queue = Tail(@)]))
            /\ pc' = [pc EXCEPT ![w] = "exc_signal"]
            /\ Fault
    /\ UNCHANGED <<streamed, worker_frame>>

\* transcribe_stream raises
WorkerDecodeRaises(w) ==
    /\ Turn(w)
    /\ pc[w] = "decode"
    /\ Store(w, Except(info[w]))
    /\ pc' = [pc EXCEPT ![w] = "exc_signal"]
    /\ Fault
    /\ UNCHANGED <<streamed, worker_frame>>

\* info.result_event.set(); with reuse the next cycle; without reuse
\* info.transcriber.stop() and the end of the thread.  stopped is false when
\* stop() raises and leaves the engine running.
WorkerSignal(w, stopped) ==
    /\ Turn(w)
    /\ pc[w] = "signal"
    /\ IF reuse_transcribers
       THEN /\ stopped
            /\ Store(w, Signal(info[w]))
            /\ pc' = [pc EXCEPT ![w] = "ready_wait"]
            /\ UNCHANGED faults
       ELSE /\ Store(w, [Signal(info[w]) EXCEPT
                           !.transcriber = IF stopped THEN "stopped" ELSE @])
            /\ pc' = [pc EXCEPT ![w] = "done"]
            /\ IF stopped THEN UNCHANGED faults ELSE Fault
    /\ UNCHANGED <<streamed, worker_frame>>

\* the except branch ends: info.result_event.set(); the thread ends
WorkerExceptSignal(w) ==
    /\ Turn(w)
    /\ pc[w] = "exc_signal"
    /\ Store(w, Signal(info[w]))
    /\ pc' = [pc EXCEPT ![w] = "done"]
    /\ UNCHANGED <<streamed, faults, worker_frame>>

\* ------------------------------------------------------------ handle_train
Dicts == 1..MaxDicts
Words == {"cat", "dog"}
\* the lines of the dictionary files: a word and a pronunciation
Lines == {<<"cat", "k a t">>, <<"cat", "k ae t">>, <<"dog", "d o g">>}
FileContents == UNION {[1..n -> Lines] : n \in 0..MaxLines}

\* PronunciationDictionary(path=path): nothing loaded
PronunciationDictionary ==
    [mtime_ns |-> None, pronunciations |-> [word \in Words |-> <<>>]]

\* pronunciations[word].extend(base_dict.pronunciations[word])
Extended(old, new) == old \o new

RECURSIVE read_pronunciations(_, _)
\* rhasspynlu.g2p.read_pronunciations(file, word_dict=...): every line of
\* the file is appended to the entry of its word
read_pronunciations(lines, word_dict) ==
    IF Len(lines) = 0 THEN word_dict
    ELSE read_pronunciations(
             Tail(lines),
             [word_dict EXCEPT ![Head(lines)[1]] = Append(@, Head(lines)[2])])

RECURSIVE load_base_dictionaries(_, _, _, _)
\* the loop over self.base_dictionaries, from dictionary d on: B is
\* self.base_dictionaries, F the files, pronunciations the working map;
\* raised when a file that has to be loaded cannot be read
load_base_dictionaries(B, F, d, pronunciations) ==
    IF d > MaxDicts
    THEN [base_dictionaries |-> B, pronunciations |-> pronunciations,
          raised |-> FALSE]
    ELSE IF IsNone(F[d])
    THEN load_base_dictionaries(B, F, d + 1, pronunciations)
    ELSE
    LET file == F[d][1]
        reload == IsNone(B[d].mtime_ns) \/ B[d].mtime_ns[1] # file.mtime_ns
        B1 == IF reload THEN [B EXCEPT ![d].mtime_ns = Some(file.mtime_ns)]
              ELSE B
    IN IF reload /\ ~file.readable
       THEN [base_dictionaries |-> B1, pronunciations |-> pronunciations,
             raised |-> TRUE]
       ELSE
       LET B2 == IF reload
                 THEN [B1 EXCEPT ![d].pronunciations =
                          read_pronunciations(file.lines, @)]
                 ELSE B1
       IN load_base_dictionaries(
              B2, F, d + 1,
              [word \in Words |->
                  Extended(pronunciations[word], B2[d].pronunciations[word])])

\* handle_train(train): compiled is false when the compilation, the
\* preparation of the decoding or the packaging of the model raises
HandleTrain(compiled) ==
    /\ trains < MaxTrains
    /\ trains' = trains + 1
    /\ LET r == load_base_dictionaries(base_dictionaries, dict_files, 1,
                                       [word \in Words |-> <<>>])
       IN /\ base_dictionaries' = r.base_dictionaries
          /\ trained' = IF ~r.raised /\ ~no_overwrite_train
                        THEN Some(r.pronunciations) ELSE None
          /\ train_out' = IF ~r.raised /\ compiled THEN "success" ELSE "error"
    /\ UNCHANGED <<session_vars, token_vars, toggle_vars, no_overwrite_train,
                   dict_files>>

Max(a, b) == IF a > b THEN a ELSE b

\* the newest modification time the files of dictionaries 1..d have or had
\* when handle_train looked at them: the clock of the file system does not
\* go back
RECURSIVE Newest(_)
Newest(d) ==
    IF d = 0 THEN 0
    ELSE Max(Newest(d - 1),
             Max(IF NotNone(dict_files[d]) THEN dict_files[d][1].mtime_ns
                 ELSE 0,
                 IF NotNone(base_dictionaries[d].mtime_ns)
                 THEN base_dictionaries[d].mtime_ns[1] ELSE 0))

train_frame == <<session_vars, token_vars, toggle_vars, no_overwrite_train,
                base_dictionaries, trained, train_out, trains>>

\* the file of dictionary d is written anew, at a later time
WriteFile(d, lines) ==
    /\ Newest(MaxDicts) < MaxMtime
    /\ dict_files' = [dict_files EXCEPT ![d] =
            Some([mtime_ns |-> Newest(MaxDicts) + 1, lines |-> lines,
                  readable |-> TRUE])]
    /\ UNCHANGED train_frame

\* the permissions of the file of dictionary d change; its modification
\* time does not
ChangeMode(d) ==
    /\ NotNone(dict_files[d])
    /\ dict_files' = [dict_files EXCEPT ![d] =
            Some([@[1] EXCEPT !.readable = ~@])]
    /\ UNCHANGED train_frame

\* the file of dictionary d is removed
RemoveFile(d) ==
    /\ NotNone(dict_files[d])
    /\ dict_files' = [dict_files EXCEPT ![d] = None]
    /\ UNCHANGED train_frame

\* ---------------------------------------------------------- specification
NoSessions ==
    /\ reuse_transcribers \in BOOLEAN
    /\ sessions = <<>>
    /\ free_transcribers = <<>>
    /\ info = [w \in Workers |-> TranscriberInfo(TRUE)]
    /\ pc = [w \in Workers |-> "unborn"]
    /\ streamed = [w \in Workers |-> <<>>]
    /\ created = 0
    /\ routed = [w \in Workers |-> <<>>]
    /\ emitted = [w \in Workers |-> NoEmitted]
    /\ out = <<>>
    /\ faults = 0
    /\ k = IdleK
    /\ enabled = TRUE
    /\ disabled_reasons = {}

NoTokens ==
    /\ tk_result = None
    /\ tk_emitted = None

\* no base dictionaries on disk, handle_train not called
NoTraining ==
    /\ no_overwrite_train = FALSE
    /\ base_dictionaries = [d \in Dicts |-> PronunciationDictionary]
    /\ dict_files = [d \in Dicts |-> None]
    /\ trained = None
    /\ train_out = "none"
    /\ trains = 0

Init ==
    /\ NoSessions
    /\ NoTokens
    /\ NoTraining

\* the start requests of the model: both sessions at one site, with and
\* without silence detection, with and without the captured audio; the
\* other site occurs in stop requests and in frames
StartMessages ==
    {AsrStartListening("A", "s1", TRUE, TRUE),
     AsrStartListening("A", "s2", FALSE, TRUE),
     AsrStartListening("A", "s2", TRUE, FALSE)}
StopMessages == {AsrStopListening(site, sid) : site \in Sites, sid \in SessionIds}
Oracles == [Workers -> ProcessOutcomes]
Results == {None} \cup {Some(Transcription(t)) : t \in Texts}

\* The inputs of a handler that none of its calls reads are fixed: the
\* outcome of process_chunk for a worker whose recorder is not asked, the
\* trimming of a recorder that holds no audio, the failure of a recorder
\* setup that does not take place.
\* The frames of the model carry one byte of audio, and the bytes of the
\* frames that reach one binding are all different.
Longest(ws) ==
    IF ws = {} THEN 0
    ELSE Len(routed[CHOOSE w \in ws : \A v \in ws : Len(routed[v]) <= Len(routed[w])])
FramesFor(ws) == {Wav(<<Min(Longest(ws) + 1, MaxFrames)>>)}
NoOracle == [w \in Workers |-> "none"]
OraclesFor(ws) ==
    {o \in Oracles :
        \A w \in Workers :
            o[w] # "none" => w \in ws /\ NotNone(info[w].recorder)}
TrimsFor(ws) ==
    IF \E w \in ws : /\ NotNone(info[w].recorder)
                     /\ Len(info[w].recorder[1].chunks) > 0
    THEN Trims ELSE {0}
FailuresFor(message) ==
    IF message.stop_on_silence THEN SetupFailures ELSE {"none"}
RestWorkers == {k.rest[n].info : n \in 1..Len(k.rest)}

DoStartListening ==
    /\ k.pc = "idle"
    /\ NoneDetached
    /\ \E m \in StartMessages :
         \E f \in FailuresFor(m), t \in TrimsFor(Registered) :
            StartListening(m, f, t)
DoStopListening ==
    /\ k.pc = "idle"
    /\ NoneDetached
    /\ \E m \in StopMessages, t \in TrimsFor(Registered) : StopListening(m, t)
DoAudioFrame ==
    /\ k.pc = "idle"
    /\ NoneDetached
    /\ \E site \in Sites :
         \E o \in OraclesFor(MatchingTargets(Machine, site, None)),
            t \in TrimsFor(Workers),
            f \in FramesFor(MatchingTargets(Machine, site, None)) :
               AudioFrame(f, site, o, t)
DoAudioSessionFrame ==
    /\ k.pc = "idle"
    /\ NoneDetached
    /\ \E site \in Sites, sid \in SessionIds :
         IF HasSession(sessions, sid)
         THEN \E o \in OraclesFor(MatchingTargets(Machine, site, Some(sid))),
                 t \in TrimsFor(Workers),
                 f \in FramesFor(MatchingTargets(Machine, site, Some(sid))) :
                    AudioSessionFrame(f, site, sid, o, t)
         ELSE \E f \in FramesFor({}) : AudioSessionFrame(f, site, sid, NoOracle, 0)
ResumeInputs ==
    IF k.op = "frame"
    THEN {<<"none", o, t>> : o \in OraclesFor(RestWorkers), t \in TrimsFor(Workers)}
    ELSE IF k.op = "start"
    THEN {<<f, NoOracle, 0>> : f \in FailuresFor(k.msg[1])}
    ELSE {<<"none", NoOracle, 0>>}
DoResultWaitSignalled ==
    /\ k.pc = "wait"
    /\ NoneDetached
    /\ \E x \in ResumeInputs : ResultWaitSignalled(x[1], x[2], x[3])
DoResultWaitTimeout ==
    /\ k.pc = "wait"
    /\ NoneDetached
    /\ \E x \in ResumeInputs : ResultWaitTimeout(x[1], x[2], x[3])
DoWorkerConstruct == \E w \in Workers, ok \in BOOLEAN : WorkerConstruct(w, ok)
DoWorkerReady == \E w \in Workers : WorkerReady(w)
DoWorkerPull == \E w \in Workers : WorkerPull(w)
DoWorkerTranscribed == \E w \in Workers, r \in Results : WorkerTranscribed(w, r)
DoWorkerDecodeRaises == \E w \in Workers : WorkerDecodeRaises(w)
DoWorkerSignal == \E w \in Workers, s \in BOOLEAN : WorkerSignal(w, s)
DoWorkerExceptSignal == \E w \in Workers : WorkerExceptSignal(w)

Dispatch ==
    \/ DoStartListening
    \/ DoStopListening
    \/ DoAudioFrame
    \/ DoAudioSessionFrame
    \/ DoResultWaitSignalled
    \/ DoResultWaitTimeout

Worker ==
    \/ DoWorkerConstruct
    \/ DoWorkerReady
    \/ DoWorkerPull
    \/ DoWorkerTranscribed
    \/ DoWorkerDecodeRaises
    \/ DoWorkerSignal
    \/ DoWorkerExceptSignal

Next == Dispatch \/ Worker

Spec == Init /\ [][Next]_vars

\* the steps of the thread of worker w
WorkerStep(w) ==
    \/ \E ok \in BOOLEAN : WorkerConstruct(w, ok)
    \/ WorkerReady(w)
    \/ WorkerPull(w)
    \/ \E r \in Results : WorkerTranscribed(w, r)
    \/ WorkerDecodeRaises(w)
    \/ \E stopped \in BOOLEAN : WorkerSignal(w, stopped)
    \/ WorkerExceptSignal(w)

\* Every thread that can take a step is scheduled, and a call into the
\* engine returns or raises.
FairSpec == Spec /\ \A w \in Workers : WF_vars(WorkerStep(w))

\* ------------------------------------- the tokens of a text-captured event
\* finish_session builds the tokens of the event from the engine's result
\* alone; this specification runs that part of it on every result with up to
\* MaxTokens tokens.
EngineTokens ==
    {Token("go", 9, 0, 4), Token("home", 7, 4, 9), Token("a", 3, 1, 2),
     Token("", 5, 0, 0)}
TokenSeqs == UNION {[1..n -> EngineTokens] : n \in 0..MaxTokens}
TokenResults ==
    {Some([text |-> "go", tokens |-> ts]) :
        ts \in {None} \cup {Some(q) : q \in TokenSeqs}}

TokenInit ==
    /\ NoSessions
    /\ NoTraining
    /\ tk_result \in TokenResults
    /\ tk_emitted = None

\* if transcription.tokens: ... asr_tokens = [asr_inner_tokens]
FinishTokens ==
    /\ NotNone(tk_result)
    /\ IsNone(tk_emitted)
    /\ tk_emitted' = Some(asr_tokens(tk_result[1]))
    /\ UNCHANGED <<session_vars, train_vars, toggle_vars, tk_result>>

TokenNext == FinishTokens

TokenSpec == TokenInit /\ [][TokenNext]_vars

\* ------------------------------------------------------------- training
\* handle_train shares no state with the sessions; this specification runs
\* it on dictionary files that are written, removed and made unreadable
\* between its calls.
TrainInit ==
    /\ NoSessions
    /\ reuse_transcribers
    /\ NoTokens
    /\ no_overwrite_train \in BOOLEAN
    /\ base_dictionaries = [d \in Dicts |-> PronunciationDictionary]
    /\ dict_files \in [Dicts -> {None} \cup
           {Some([mtime_ns |-> 1, lines |-> ls, readable |-> TRUE]) :
               ls \in FileContents}]
    /\ trained = None
    /\ train_out = "none"
    /\ trains = 0

DoHandleTrain == \E compiled \in BOOLEAN : HandleTrain(compiled)
DoWriteFile == \E d \in Dicts, ls \in FileContents : WriteFile(d, ls)
DoChangeMode == \E d \in Dicts : ChangeMode(d)
DoRemoveFile == \E d \in Dicts : RemoveFile(d)

TrainNext ==
    \/ DoHandleTrain
    \/ DoWriteFile
    \/ DoChangeMode
    \/ DoRemoveFile

TrainSpec == TrainInit /\ [][TrainNext]_vars

\* ------------------------------------------ the messages of two sites
\* on_message_blocking with the toggles and with sessions at both sites; no
\* call into the engine or the recorder fails in this specification.
BusStartMessages ==
    {AsrStartListening("A", "s1", TRUE, FALSE),
     AsrStartListening("B", "s1", FALSE, FALSE),
     AsrStartListening("B", "s2", FALSE, FALSE)}

BusInit ==
    /\ reuse_transcribers = TRUE
    /\ sessions = <<>>
    /\ free_transcribers = <<>>
    /\ info = [w \in Workers |-> TranscriberInfo(TRUE)]
    /\ pc = [w \in Workers |-> "unborn"]
    /\ streamed = [w \in Workers |-> <<>>]
    /\ created = 0
    /\ routed = [w \in Workers |-> <<>>]
    /\ emitted = [w \in Workers |-> NoEmitted]
    /\ out = <<>>
    /\ faults = MaxFaults
    /\ k = IdleK
    /\ enabled = TRUE
    /\ disabled_reasons = {}
    /\ NoTokens
    /\ NoTraining

DoToggleOn == \E reason \in Reasons : ToggleOn(reason)
DoToggleOff == \E reason \in Reasons : ToggleOff(reason)
DoStartListeningAtSites ==
    /\ k.pc = "idle"
    /\ NoneDetached
    /\ \E m \in BusStartMessages, t \in TrimsFor(Registered) :
          StartListening(m, "none", t)

BusNext ==
    \/ DoToggleOn
    \/ DoToggleOff
    \/ DoStartListeningAtSites
    \/ DoStopListening
    \/ DoAudioFrame
    \/ DoAudioSessionFrame
    \/ DoResultWaitSignalled
    \/ DoResultWaitTimeout
    \/ DoWorkerConstruct
    \/ DoWorkerReady
    \/ DoWorkerPull
    \/ DoWorkerTranscribed
    \/ DoWorkerSignal

BusSpec == BusInit /\ [][BusNext]_vars

\* ------------------------------------------------ frames without audio
\* maybe_convert_wav gives b"" for a WAV container without samples.  This
\* specification adds such frames to the messages; no call into the engine
\* or the recorder fails in it.
EmptyWav == Wav(<<>>)

StreamInit ==
    /\ reuse_transcribers \in BOOLEAN
    /\ sessions = <<>>
    /\ free_transcribers = <<>>
    /\ info = [w \in Workers |-> TranscriberInfo(TRUE)]
    /\ pc = [w \in Workers |-> "unborn"]
    /\ streamed = [w \in Workers |-> <<>>]
    /\ created = 0
    /\ routed = [w \in Workers |-> <<>>]
    /\ emitted = [w \in Workers |-> NoEmitted]
    /\ out = <<>>
    /\ faults = MaxFaults
    /\ k = IdleK
    /\ enabled = TRUE
    /\ disabled_reasons = {}
    /\ NoTokens
    /\ NoTraining

DoEmptyAudioFrame ==
    /\ k.pc = "idle"
    /\ NoneDetached
    /\ \E site \in Sites :
         \E o \in OraclesFor(MatchingTargets(Machine, site, None)),
            t \in TrimsFor(Workers) :
               AudioFrame(EmptyWav, site, o, t)

StreamNext ==
    \/ DoStartListening
    \/ DoStopListening
    \/ DoAudioFrame
    \/ DoEmptyAudioFrame
    \/ DoResultWaitSignalled
    \/ DoResultWaitTimeout
    \/ DoWorkerConstruct
    \/ DoWorkerReady
    \/ DoWorkerPull
    \/ DoWorkerTranscribed
    \/ DoWorkerSignal

StreamSpec == StreamInit /\ [][StreamNext]_vars

\* ================================================================= claims
\* C1: in every binding of a worker to a session at most one
\* recording-finished event and at most one text-captured event are emitted,
\* whatever the messages and the workers do; a second finalize of the
\* binding emits nothing.  (emitted counts the events of the binding and
\* stops counting at 2.)
C1_AtMostOnePerSession ==
    \A w \in Workers : emitted[w].rf <= 1 /\ emitted[w].tc <= 1

\* a registered session that finish_session was called for twice and that
\* has emitted one event of each kind
C1_SecondFinalizeSilent ==
    \E w \in Registered :
        emitted[w].fin = 2 /\ emitted[w].rf = 1 /\ emitted[w].tc = 1

\* the events of one type for one session among evs
EventsOf(evs, type, sid) ==
    {n \in 1..Len(evs) : evs[n].type = type /\ evs[n].session_id = sid}

\* the session has a worker that finish_session has not been through
Unfinalized(sid) ==
    HasSession(sessions, sid) /\ ~info[SessionInfo(sessions, sid)].result_sent

\* the handler as it goes on when result_event.wait returns now
Resumed(x) ==
    Resume(finish_session_end(Machine, ~info[k.w].result_event),
           x[1], x[2], x[3])

\* C2: every stop_listening of a registered session that is not finalized
\* yet (the stop request, or the stop inside a start request for the same
\* session id) reaches the wait for the worker, and when the wait returns,
\* by the signal or by the timeout, whatever state the worker is in, the
\* handler has emitted exactly one text-captured event for the session.
C2_StopEmitsOneTextCaptured ==
    /\ k.pc = "idle" =>
          /\ \A m \in StopMessages, t \in Trims :
                Unfinalized(m.session_id) =>
                    stop_listening(Begin("stop"), m, t).k.pc = "wait"
          /\ \A m \in StartMessages, f \in SetupFailures, t \in Trims :
                Unfinalized(m.session_id) =>
                    start_listening(Begin("start"), m, f, t).k.pc = "wait"
    /\ k.pc = "wait" /\ k.op \in {"stop", "start"} =>
          /\ EventsOf(out, "textCaptured", k.session_id) = {}
          /\ \A x \in ResumeInputs :
                /\ Cardinality(EventsOf(Resumed(x).out, "textCaptured",
                                        k.session_id)) = 1
                /\ Resumed(x).k.pc = "run"

\* a stop request waits for a worker whose engine could not be constructed
C2_StopOfFailedWorker ==
    /\ k.pc = "wait" /\ k.op = "stop" /\ k.pre = "unsent"
    /\ pc[k.w] = "done" /\ info[k.w].transcriber = "None"
    /\ \E x \in ResumeInputs :
          \E n \in EventsOf(Resumed(x).out, "textCaptured", k.session_id) :
              Resumed(x).out[n].text = ""

\* handle_audio_frame for a frame that names session sid, from this state
SessionFrameHandled(f, site, sid, o, t) ==
    handle_audio_frame([Begin("frame") EXCEPT !.k.session_id = sid],
                       f, site, Some(sid), o, t)

\* C3: a frame that names a session is put on the queue of that session's
\* worker, behind what the queue holds, and on no other queue, however many
\* sessions are open; and audio_stream yields the frames of a binding in the
\* order in which they were routed to it.
C3_OwnQueueInOrder ==
    /\ k.pc = "idle" =>
          \A sid \in SessionIds, site \in Sites, f \in WavFrames,
             x \in ProcessOutcomes, t \in Trims :
              HasSession(sessions, sid) =>
                  LET w == SessionInfo(sessions, sid)
                      o == [v \in Workers |-> x]
                      M2 == SessionFrameHandled(f, site, sid, o, t)
                      put == info[w].frame_queue \o <<Some(maybe_convert_wav(f))>>
                  IN /\ \A v \in Workers \ {w} :
                           M2.info[v].frame_queue = info[v].frame_queue
                     /\ IF w \in MatchingTargets(Machine, site, Some(sid))
                        THEN IsPrefix(put, M2.info[w].frame_queue)
                        ELSE M2.info[w].frame_queue = info[w].frame_queue
    /\ \A w \in Workers : IsPrefix(streamed[w], routed[w])

\* the handler of a frame that names one of two open sessions waits in
\* finish_session: the frame is the second one of its session, the worker
\* has pulled both, and the other session has received nothing
C3_FrameForOneOfTwoSessions ==
    /\ k.pc = "wait" /\ k.op = "frame" /\ ~k.bcast
    /\ Len(sessions) = 2
    /\ Len(routed[k.w]) = 2 /\ routed[k.w][2] = k.frame
    /\ streamed[k.w] = routed[k.w]
    /\ \A v \in Registered \ {k.w} : routed[v] = <<>>

\* C4: while the worker has not set result_event the wait of finish_session
\* can return by the timeout, so finish_session ends; when it returns so the
\* worker is marked non-reusable; and a non-reusable worker stays so and is
\* not in the free pool after any later step.
C4_TimeoutRetiresWorker ==
    /\ [](k.pc = "wait" /\ ~info[k.w].result_event =>
            \E x \in ResumeInputs :
                ENABLED ResultWaitTimeout(x[1], x[2], x[3]))
    /\ [][k.pc = "wait" /\ ~info[k.w].result_event /\ k' # k =>
            ~info'[k.w].reuse]_vars
    /\ [][\A w \in Workers :
            ~info[w].reuse /\ pc[w] # "unborn" =>
                /\ ~info'[w].reuse
                /\ \A n \in 1..Len(free_transcribers') :
                       free_transcribers'[n] # w]_vars

\* with reuse switched on, a worker whose engine runs and that has not set
\* result_event is non-reusable and outside the registry and the pool: the
\* stop of its session has timed out
C4_TimedOutWorkerDiscarded ==
    /\ reuse_transcribers /\ k.pc = "idle"
    /\ \E w \in 1..created :
          /\ w \notin Registered \cup Pooled
          /\ ~info[w].reuse
          /\ info[w].transcriber = "running"
          /\ ~info[w].result_event

\* the states in which start_listening can reach the acquisition of a worker
\* from this state: at once, after the stop of the session it restarts, or
\* when the wait of that stop returns
AcquisitionPoints ==
    IF k.pc = "idle"
    THEN {Begin("start")} \cup
         {stop_listening(Begin("start"), m, t) :
              m \in {x \in StopMessages : HasSession(sessions, x.session_id)},
              t \in Trims}
    ELSE IF k.op = "start"
    THEN {stop_listening_end(finish_session_end(Machine, t), k.w) :
              t \in BOOLEAN}
    ELSE {}

\* C5: when start_listening acquires its worker and the pool is not empty,
\* it takes the last worker of the pool and constructs no TranscriberInfo
\* and starts no thread; when the pool is empty it constructs one worker and
\* starts its thread.  No other step constructs a worker or starts a thread.
C5_PoolBeforeConstruction ==
    /\ [](\A M \in AcquisitionPoints, m \in StartMessages, f \in SetupFailures :
            M.k.pc = "run" /\ (M.created < MaxWorkers \/ FromPool(M)) =>
                LET M2 == start_listening_setup(M, m, f)
                    n == Len(M.free_transcribers)
                IN IF n > 0
                   THEN /\ M2.created = M.created /\ M2.pc = M.pc
                        /\ M2.k.w = M.free_transcribers[n]
                        /\ M2.free_transcribers =
                               SubSeq(M.free_transcribers, 1, n - 1)
                   ELSE /\ M2.created = M.created + 1
                        /\ M2.k.w = M2.created
                        /\ M.pc[M2.k.w] = "unborn"
                        /\ M2.pc = [M.pc EXCEPT ![M2.k.w] = "construct"]
                        /\ M2.free_transcribers = <<>>)
    /\ [][created' # created \/ (\E w \in Workers : pc[w] = "unborn" /\ pc'[w] # "unborn")
            => /\ created' = created + 1
               /\ k.pc = "idle" \/ (k.pc = "wait" /\ k.op = "start")
               /\ k.pc = "idle" => Len(free_transcribers) = 0]_vars

\* one worker has been constructed, and it serves a session without silence
\* detection while it holds the recorder of an earlier session: the session
\* was started with this worker in the pool
C5_SessionOnPooledWorker ==
    /\ k.pc = "idle" /\ created = 1 /\ free_transcribers = <<>>
    /\ \E w \in Registered :
          /\ NotNone(info[w].recorder)
          /\ ~info[w].start_listening[1].stop_on_silence

\* the audio-captured clips for one session among evs
ClipsOf(evs, sid) ==
    {evs[n].wav[1] : n \in EventsOf(evs, "audioCaptured", sid)}

\* C6: when finish_session is through for a session that was started with
\* stop_on_silence = false, on a fresh worker or on one from the pool, the
\* clip of its audio-captured event is the concatenation, in order, of all
\* frames routed to the session since its start.
C6_ClipIsAllRoutedAudio ==
    k.pc = "wait" /\ ~info[k.w].start_listening[1].stop_on_silence =>
        \A x \in ResumeInputs :
            \A clip \in ClipsOf(Resumed(x).out, k.session_id) :
                clip = to_wav_bytes(Flatten(routed[k.w]))

\* what a frame handler can have done when it next blocks or ends: the
\* handler of a new frame when the dispatch thread is idle, the rest of the
\* running one when it waits
FrameResults ==
    IF k.pc = "idle"
    THEN UNION {
           {handle_audio_frame([Begin("frame") EXCEPT !.k.bcast = TRUE],
                               f, site, None, o, t) :
                o \in OraclesFor(MatchingTargets(Machine, site, None)),
                t \in Trims, f \in WavFrames}
           \cup
           UNION {{SessionFrameHandled(f, site, sid, o, t) :
                      o \in OraclesFor(MatchingTargets(Machine, site, Some(sid))),
                      t \in Trims, f \in WavFrames} :
                  sid \in {x \in SessionIds : HasSession(sessions, x)}}
           : site \in Sites}
    ELSE IF k.op = "frame" THEN {Resumed(x) : x \in ResumeInputs}
    ELSE {}

IsEvent(e, type, w) == e.type = type /\ e.w = w

\* recording-finished for w is in M.out and text-captured for w is the next
\* event, or recording-finished is the last event and the handler waits for w
FinishedThenText(M, w) ==
    \E n \in 1..Len(M.out) :
        /\ IsEvent(M.out[n], "recordingFinished", w)
        /\ IF n = Len(M.out) THEN M.k.pc = "wait" /\ M.k.w = w
           ELSE IsEvent(M.out[n + 1], "textCaptured", w)

\* C7: when the recorder of a session started with stop_on_silence = true
\* reports the end of the command on a frame and the session is not finalized
\* yet, the handler of that frame emits recording-finished for the session
\* and text-captured for it as the next event; and the handler of a frame
\* emits no recording-finished, text-captured or audio-captured event for a
\* session that was finalized before the frame.
C7_SilenceFinalizesInFrame ==
    \A M \in FrameResults :
        /\ \A w \in M.k.silenced \ M.k.sent_before :
              M.info[w].start_listening[1].stop_on_silence =>
                  FinishedThenText(M, w)
        /\ \A n \in 1..Len(M.out) :
              M.out[n].type # "error" => M.out[n].w \notin M.k.sent_before

\* a session with silence detection that was finalized on its first frame
\* (one event of each kind, one call of finish_session); its second frame
\* lies in the queue behind the sentinel the worker has taken
C7_FrameAfterFinalize ==
    \E w \in Registered :
        /\ info[w].start_listening[1].stop_on_silence
        /\ emitted[w].rf = 1 /\ emitted[w].tc = 1 /\ emitted[w].fin = 1
        /\ Len(routed[w]) = 2 /\ Len(streamed[w]) = 1
        /\ info[w].frame_queue = <<Some(routed[w][2])>>

\* C8 (the statement of the specification): while the dispatch thread waits
\* in finish_session for the result of one worker and another session is
\* registered, a frame can be put on the queue of the other session's worker
\* before the wait is over.
C8_FramesAcceptedWhileFinalizing ==
    /\ k.pc = "wait"
    /\ Registered \ {k.w} # {}
    /\ RoutedTotal(Registered) < MaxFrames
    => ENABLED /\ Next
               /\ k' = k
               /\ \E w \in Registered \ {k.w} :
                     Len(info'[w].frame_queue) > Len(info[w].frame_queue)

\* the thread of w has ended a decode cycle or has ended
CycleOver(w) ==
    \/ pc[w] = "done"
    \/ pc[w] = "ready_wait" /\ ~info[w].ready_event

\* C9: a step by which the thread of a worker ends a decode cycle or ends
\* (after a decode, after a decode or a construction that raised, after an
\* engine stop that raised) leaves the result signal of the worker set; a
\* finalizer never waits for a worker whose cycle is over and whose signal
\* is not set; and the signal of a worker a finalizer waits for is set in
\* the end.
C9_WorkerAlwaysSignals ==
    /\ [][\A w \in Workers :
            pc[w] \in {"signal", "exc_signal"} /\ pc'[w] # pc[w] =>
                pc'[w] \in {"ready_wait", "done"} /\ info'[w].result_event]_vars
    /\ [](\A w \in Workers : pc[w] = "done" => info[w].result_event)
    /\ [](k.pc = "wait" /\ CycleOver(k.w) => info[k.w].result_event)
    /\ \A w \in Workers :
          (k.pc = "wait" /\ k.w = w /\ ~info[w].result_event)
              ~> info[w].result_event

\* the recorder of a session has reported the end of the command, the
\* handler waits, and the thread of the worker has ended in its except
\* branch with the signal set
C9_FailedWorkerSignalled ==
    /\ k.pc = "wait" /\ k.op = "frame"
    /\ pc[k.w] = "done"
    /\ info[k.w].transcriber = "None"
    /\ ~info[k.w].reuse
    /\ info[k.w].result_event

\* the workers the loop of a frame handler has still to visit
Unvisited(M) ==
    IF M.k.pc = "wait" THEN {M.k.rest[n].info : n \in 1..Len(M.k.rest)} ELSE {}

\* the matching targets a step of the handler of a broadcast frame visits:
\* all of them when the handler starts, those that are left when it goes on
\* after a wait, less those that are left when it waits again
VisitedBy(M) ==
    ((IF k.pc = "idle" THEN Registered ELSE RestWorkers) \cap M.k.targets)
        \ Unvisited(M)

\* the frame of the handler has reached worker w: the end of its queue (in
\* front of the sentinel, if the session was finalized on this frame), and
\* its recorder or its audio buffer unless the session raised
FrameReached(M, w) ==
    /\ M.routed[w] = Append(routed[w], M.k.frame)
    /\ IsPrefix(Append(info[w].frame_queue, Some(M.k.frame)),
                M.info[w].frame_queue)
    /\ w \notin M.k.failed =>
          IF NotNone(info[w].recorder)
          THEN M.info[w].recorder[1].chunks =
                  IF w \in M.k.silenced THEN <<>>
                  ELSE Append(info[w].recorder[1].chunks, M.k.frame)
          ELSE M.info[w].audio_buffer =
                  Some(info[w].audio_buffer[1] \o M.k.frame)

\* C10: in the handling of a broadcast frame every target session that
\* raises gets one error event, the event carries the id of that session,
\* and no session gets an error event without having raised; and whether or
\* not a target has raised, every target with the frame's site has the
\* frame put on its queue and its recorder or its audio buffer updated by
\* the time the handler ends (the targets that are left when the handler
\* waits in finish_session have it when the handler goes on).
C10_ErrorScopedToSession ==
    \A M \in {N \in FrameResults : N.k.bcast} :
        /\ \A n \in 1..Len(M.out) :
              M.out[n].type = "error" =>
                  /\ M.out[n].w \in M.k.failed
                  /\ HasSession(sessions, M.out[n].session_id)
                  /\ SessionInfo(sessions, M.out[n].session_id) = M.out[n].w
        /\ \A w \in M.k.failed :
              Cardinality({n \in 1..Len(M.out) :
                              IsEvent(M.out[n], "error", w)}) = 1
        /\ \A w \in VisitedBy(M) : FrameReached(M, w)

\* a broadcast frame for two sessions: the recorder of the first raised,
\* the error event names the first session, and the second session got the
\* frame and was finalized on the silence its recorder reported
C10_SecondTargetAfterError ==
    /\ k.pc = "wait" /\ k.op = "frame" /\ k.bcast
    /\ Len(out) = 2
    /\ out[1].type = "error" /\ out[1].session_id = "s1"
    /\ out[2].type = "recordingFinished" /\ out[2].session_id = "s2"
    /\ k.failed = {SessionInfo(sessions, "s1")}
    /\ k.w = SessionInfo(sessions, "s2")
    /\ routed[k.w] = <<k.frame>>

\* what a start_listening can have done when it next blocks or ends, with
\* the request and the call of the setup that raises: the handler of a new
\* request when the dispatch thread is idle, the rest of the running one
\* when it waits for the stop of the old session
StartResults ==
    IF k.pc = "idle"
    THEN IF created < MaxWorkers \/ Len(free_transcribers) > 0
         THEN {<<m, f, StartHandled(m, f, t)>> :
                  m \in StartMessages, f \in SetupFailures, t \in Trims}
         ELSE {}
    ELSE IF k.op = "start"
    THEN {<<k.msg[1], x[1], Resumed(x)>> : x \in ResumeInputs}
    ELSE {}

\* the setup of request m raises in M: the recorder's start, or the recorder
\* factory when the worker that was acquired has no recorder
SetupRaises(m, f, M) ==
    /\ m.stop_on_silence
    /\ \/ f = "start"
       \/ f = "factory" /\ (M.k.acq = "new" \/ IsNone(info[M.k.w].recorder))

ErrorsFor(evs, m) ==
    {n \in 1..Len(evs) : /\ evs[n].type = "error"
                         /\ evs[n].site_id = m.site_id
                         /\ evs[n].session_id = m.session_id}

\* C11: a start_listening whose setup raises emits exactly one error event,
\* with the site id and the session id of the request, and ends with no
\* session registered under the request's session id; a start_listening
\* whose setup does not raise emits no error event and registers the session.
C11_SetupErrorNotRegistered ==
    \A r \in StartResults :
        LET m == r[1]
            M == r[3]
        IN M.k.pc # "wait" =>
              IF SetupRaises(m, r[2], M)
              THEN /\ Cardinality(ErrorsFor(M.out, m)) = 1
                   /\ \A n \in 1..Len(M.out) :
                         M.out[n].type = "error" => n \in ErrorsFor(M.out, m)
                   /\ ~HasSession(M.sessions, m.session_id)
              ELSE /\ ErrorsFor(M.out, m) = {}
                   /\ HasSession(M.sessions, m.session_id)

\* a start_listening has raised in its setup: its worker was created, runs
\* a decode cycle with an empty queue and an engine, and is neither
\* registered nor pooled
C11_WorkerOfFailedSetup ==
    /\ k.pc = "idle" /\ faults = 1
    /\ sessions = <<>> /\ free_transcribers = <<>>
    /\ created = 1 /\ pc[1] = "decode"
    /\ info[1].frame_queue = <<>>
    /\ info[1].transcriber = "running"
    /\ info[1].reuse

\* the thread of w has run its except branch: the engine raised in a decode
\* cycle or could not be constructed
EngineRaised(w) ==
    pc[w] \in {"exc_signal", "done"} /\ info[w].transcriber = "None"

\* the events finish_session adds to out when its wait returns
FinalizeTail(M) == SubSeq(M.out, Len(out) + 1, Len(M.out))

\* C12 (the statement of the specification): a worker whose engine raised
\* is not reusable and holds an empty result; when the finalize of a session
\* waits for a worker whose engine raised, or times out, recording-finished
\* has been emitted, the worker is not reusable after the wait, and the wait
\* is followed by a text-captured event with empty text and by no error
\* event.
C12_FailuresGiveEmptyText ==
    /\ \A w \in Workers :
          EngineRaised(w) =>
              ~info[w].reuse /\ info[w].result = Some(Transcription(""))
    /\ k.pc = "wait" /\ (EngineRaised(k.w) \/ ~info[k.w].result_event) =>
          LET M == finish_session_end(Machine, ~info[k.w].result_event)
              tail == FinalizeTail(M)
          IN /\ IsEvent(out[Len(out)], "recordingFinished", k.w)
             /\ ~M.info[k.w].reuse
             /\ Len(tail) >= 1
             /\ IsEvent(tail[1], "textCaptured", k.w)
             /\ tail[1].text = ""
             /\ \A n \in 1..Len(tail) : tail[n].type # "error"

\* the tokens of the engine's result the tokens of the event were built from
GivenTokens ==
    IF NotNone(tk_result[1].tokens) THEN tk_result[1].tokens[1] ELSE <<>>

\* C13: the tokens of a text-captured event are as many as the engine's;
\* the range of the first starts at 0, the range of each is as wide as the
\* token is long plus one and starts where the range before it ends; and
\* each token keeps the engine's value, likelihood, start time and end time.
C13_TokenRanges ==
    NotNone(tk_emitted) /\ Len(GivenTokens) > 0 =>
        /\ NotNone(tk_emitted[1])
        /\ Len(tk_emitted[1][1]) = 1
        /\ LET a == tk_emitted[1][1][1]
           IN /\ Len(a) = Len(GivenTokens)
              /\ a[1].range_start = 0
              /\ \A n \in 1..Len(a) :
                    /\ a[n].range_end - a[n].range_start
                          = Len(GivenTokens[n].token) + 1
                    /\ n > 1 => a[n].range_start = a[n - 1].range_end
                    /\ a[n].value = GivenTokens[n].token
                    /\ a[n].confidence = GivenTokens[n].likelihood
                    /\ a[n].time.start = GivenTokens[n].start_time
                    /\ a[n].time.end = GivenTokens[n].end_time

\* the tokens "go" and "home" have the ranges [0,3) and [3,8)
C13_GoHome ==
    /\ NotNone(tk_emitted)
    /\ Len(GivenTokens) = 2
    /\ GivenTokens[1].token = "go" /\ GivenTokens[2].token = "home"
    /\ tk_emitted[1][1][1][1].range_start = 0
    /\ tk_emitted[1][1][1][1].range_end = 3
    /\ tk_emitted[1][1][1][2].range_start = 3
    /\ tk_emitted[1][1][1][2].range_end = 8

\* the dictionaries whose file defines the word
DefinedIn(word) ==
    {d \in Dicts : /\ NotNone(dict_files[d])
                   /\ \E n \in 1..Len(dict_files[d][1].lines) :
                         dict_files[d][1].lines[n][1] = word}

\* C14 (the statement of the specification): whatever handle_train has
\* loaded in earlier calls, the pronunciations a call of handle_train hands
\* to the compilation hold, for every word that more than one dictionary
\* file defines, every pronunciation any of the files gives for the word.
C14_MergedEntryIsUnion ==
    LET r == load_base_dictionaries(base_dictionaries, dict_files, 1,
                                    [word \in Words |-> <<>>])
    IN ~r.raised =>
          \A word \in Words :
              Cardinality(DefinedIn(word)) > 1 =>
                  \A d \in DefinedIn(word) :
                      \A n \in 1..Len(dict_files[d][1].lines) :
                          dict_files[d][1].lines[n][1] = word =>
                              \E j \in 1..Len(r.pronunciations[word]) :
                                  r.pronunciations[word][j]
                                      = dict_files[d][1].lines[n][2]

\* C15: a stop_listening for a session id that is not registered ends
\* without a wait, emits no event and leaves the registry, the pool, the
\* info objects and the threads of all workers as they are.
C15_StopOfAbsentSession ==
    k.pc = "idle" =>
        \A m \in StopMessages, t \in Trims :
            ~HasSession(sessions, m.session_id) =>
                LET M == StopHandled(m, t)
                IN /\ M.k.pc = "run"
                   /\ M.out = <<>>
                   /\ M.sessions = sessions
                   /\ M.free_transcribers = free_transcribers
                   /\ M.info = info
                   /\ M.pc = pc
                   /\ Suspend(M) = Machine

\* the dispatch thread is idle, s1 is registered and has been sent audio,
\* a worker is in the pool, and s2, which a stop request can name, is not
\* registered
C15_AbsentBesideRegistered ==
    /\ k.pc = "idle"
    /\ HasSession(sessions, "s1") /\ ~HasSession(sessions, "s2")
    /\ Len(routed[SessionInfo(sessions, "s1")]) = 1
    /\ Len(free_transcribers) = 1
    /\ ENABLED StopListening(AsrStopListening("A", "s2"), 0)

\* the results of a start_listening for a session id that was registered
\* when the request arrived, with the worker of the old session
RestartResults ==
    {<<r[1], r[2], r[3],
       IF k.pc = "idle" THEN SessionInfo(sessions, r[1].session_id) ELSE k.w>> :
        r \in {x \in StartResults : x[3].k.pc # "wait" /\ x[3].k.pre # "absent"}}

\* the stop protocol has run for the old session of a restart: its
\* finalize events are in M.out if it was not finalized before, and its
\* worker old is pooled, or discarded, or was pooled and taken again
OldSessionStopped(M, m, old) ==
    /\ M.k.pre = "unsent" =>
          /\ \E n \in 1..Len(M.out) :
                /\ IsEvent(M.out[n], "recordingFinished", old)
                /\ M.out[n].session_id = m.session_id
          /\ \E n \in 1..Len(M.out) :
                /\ IsEvent(M.out[n], "textCaptured", old)
                /\ M.out[n].session_id = m.session_id
    /\ \/ M.k.acq = "pooled" /\ M.k.w = old
       \/ /\ \A n \in 1..Len(M.sessions) : M.sessions[n].info # old
          /\ IsNone(M.info[old].start_listening)
          /\ ~M.info[old].result_sent

\* one session is registered under the id of request m; its binding holds
\* the request, result_sent is false, and no audio or event of the old
\* session is counted for it
OneFreshSession(M, m) ==
    /\ Cardinality({n \in 1..Len(M.sessions) :
                       M.sessions[n].id = m.session_id}) = 1
    /\ LET new == SessionInfo(M.sessions, m.session_id)
       IN /\ ~M.info[new].result_sent
          /\ M.info[new].start_listening = Some(m)
          /\ M.routed[new] = <<>>
          /\ M.emitted[new] = NoEmitted

\* C16 (the statement of the specification): a start_listening for a session
\* id that is registered runs the stop protocol for the old session, and
\* when it ends exactly one session is registered under the id, with
\* result_sent false.
C16_RestartRegistersSession ==
    \A r \in RestartResults :
        OldSessionStopped(r[3], r[1], r[4]) /\ OneFreshSession(r[3], r[1])

\* C16 (amended): a start_listening for a session id that is registered
\* runs the stop protocol for the old session; when it ends exactly one
\* session is registered under the id, with result_sent false, unless its
\* setup raised, and then no session is registered under the id.
C16_RestartStopsThenRegisters ==
    \A r \in RestartResults :
        /\ OldSessionStopped(r[3], r[1], r[4])
        /\ IF SetupRaises(r[1], r[2], r[3])
           THEN ~HasSession(r[3].sessions, r[1].session_id)
           ELSE OneFreshSession(r[3], r[1])

\* the stop of the old session of a restart waits, the worker has set its
\* result and can be used again, and the restart ends with the session
\* registered on the same worker, taken from the pool
C16_RestartOnSameWorker ==
    /\ k.pc = "wait" /\ k.op = "start" /\ k.pre = "unsent"
    /\ info[k.w].result_event /\ info[k.w].reuse
    /\ \E x \in ResumeInputs :
          /\ HasSession(Resumed(x).sessions, k.session_id)
          /\ SessionInfo(Resumed(x).sessions, k.session_id) = k.w
          /\ Resumed(x).k.acq = "pooled"

\* C17 (the statement of the specification): a registered session has a
\* recorder or an audio buffer and not both, and it has a recorder exactly
\* when its start request asked for stop_on_silence.
C17_RecorderOrBuffer ==
    \A w \in Registered :
        /\ NotNone(info[w].recorder) # NotNone(info[w].audio_buffer)
        /\ NotNone(info[w].recorder)
              <=> info[w].start_listening[1].stop_on_silence

\* C18: no two entries of the registry hold the same worker (a worker is
\* bound to at most one registered session), no worker of a registered
\* session is in the pool, and no worker is in the pool twice.
C18_OneSessionPerWorker ==
    /\ \A i, j \in 1..Len(sessions) :
          sessions[i].info = sessions[j].info => i = j
    /\ Registered \cap Pooled = {}
    /\ \A i, j \in 1..Len(free_transcribers) :
          free_transcribers[i] = free_transcribers[j] => i = j

\* two workers have been in the pool; one of them was taken for the session
\* that is registered, the other is still there
C18_OneTakenOnePooled ==
    /\ k.pc = "idle"
    /\ created = 2 /\ Len(sessions) = 1 /\ Len(free_transcribers) = 1
    /\ free_transcribers[1] = 1 /\ sessions[1].info = 2
    /\ pc[1] = "ready_wait" /\ pc[2] = "decode"
    /\ Len(streamed[2]) = 1

\* C19: every worker in the free pool has reuse true and a live engine, and
\* its thread has ended its decode and waits for the next session (it has
\* seen no timeout, no decode exception and no construction failure, each of
\* which leaves the thread elsewhere or the engine gone); the reuse flag of
\* a worker never turns from false to true.
C19_PooledWorkersAreLive ==
    /\ [](\A w \in Pooled :
            /\ info[w].reuse
            /\ info[w].transcriber = "running"
            /\ pc[w] = "ready_wait"
            /\ ~info[w].ready_event)
    /\ [][\A w \in 1..created : info'[w].reuse => info[w].reuse]_vars

\* a worker is in the pool while another one, whose decode raised, has been
\* discarded
C19_PooledBesideDiscarded ==
    /\ k.pc = "idle" /\ created = 2
    /\ \E w \in Pooled, v \in 1..created \ (Pooled \cup Registered) :
          /\ ~info[v].reuse /\ info[v].transcriber = "None"
          /\ pc[v] = "done"
          /\ info[w].reuse

\* the session of worker w has ended and the worker is not in the pool: the
\* dispatch thread holds no reference to it
Discarded(w) == pc[w] # "unborn" /\ w \notin Referenced

\* C20: every worker whose session has ended and that is not returned to the
\* pool eventually has its engine stopped and its thread ended.
C20_DiscardedWorkerEnds ==
    \A w \in Workers :
        Discarded(w) ~> (pc[w] = "done" /\ info[w].transcriber # "running")

\* the factory of the engine has raised or returned None in the thread of
\* worker w: the thread has left by its except branch without an engine and
\* without having taken the ready signal of its first session
ConstructionFailed(w) ==
    /\ pc[w] \in {"exc_signal", "done"}
    /\ info[w].transcriber = "None"
    /\ info[w].ready_event

\* C21: when the engine of a new worker cannot be constructed the session
\* that was being started is not registered (and the start request is
\* answered with a recognition-error event).
C21_FailedConstructionNotRegistered ==
    \A w \in 1..created : ConstructionFailed(w) => w \notin Registered

\* C24: whenever the decode of a worker returns a transcription, one with
\* an empty text included, the thread stores that transcription as the
\* result of the worker and goes on to set the result signal, and the worker
\* keeps its reuse flag and its engine.
C24_ReturnedResultStored ==
    \A w \in Workers, r \in Results \ {None} :
        ENABLED WorkerTranscribed(w, r) =>
            ENABLED /\ WorkerTranscribed(w, r)
                    /\ info'[w].result = r
                    /\ pc'[w] = "signal"
                    /\ info'[w].reuse = info[w].reuse
                    /\ info'[w].transcriber = "running"

FinalizeEvents == {"recordingFinished", "textCaptured", "audioCaptured"}

\* every finalize event a handler has yielded in M carries the site of the
\* start request of the session it is about
CarriesStartSite(M) ==
    \A n \in 1..Len(M.out) :
        M.out[n].type \in FinalizeEvents =>
            /\ NotNone(info[M.out[n].w].start_listening)
            /\ M.out[n].site_id = info[M.out[n].w].start_listening[1].site_id

\* C28: every recording-finished, text-captured and audio-captured event
\* carries the siteId of the start request of its session, whether an audio
\* frame, a stop request or a start request for the same session id has
\* caused the finalize.
C28_EventsCarryStartSite ==
    /\ k.pc = "idle" =>
          /\ \A m \in StopMessages, t \in Trims :
                CarriesStartSite(StopHandled(m, t))
          /\ \A r \in StartResults : CarriesStartSite(r[3])
          /\ \A M \in FrameResults : CarriesStartSite(M)
    /\ k.pc = "wait" =>
          /\ CarriesStartSite(Machine)
          /\ \A x \in ResumeInputs : CarriesStartSite(Resumed(x))

IsSuffix(s, t) ==
    Len(s) <= Len(t) /\ SubSeq(t, Len(t) - Len(s) + 1, Len(t)) = s

RECURSIVE QueueChunks(_)
\* the audio of the frames in a queue, without the sentinels
QueueChunks(q) ==
    IF Len(q) = 0 THEN <<>>
    ELSE IF IsNone(Head(q)) THEN QueueChunks(Tail(q))
    ELSE <<Head(q)[1]>> \o QueueChunks(Tail(q))

\* C25: a worker in the pool has an empty queue (no frame and no sentinel
\* is left over), no result and no result signal, and a start_listening that
\* takes it from the pool registers it so, with the ready signal set and its
\* thread waiting for that signal; the frames the thread of a registered
\* worker has pulled and those in its queue are frames routed to the
\* session since its start, in their order; the thread begins a decode cycle only by taking
\* the ready signal, and the ready signal of an existing worker is set only
\* by a start_listening, once.
C25_PooledWorkerIsolated ==
    /\ [](\A w \in Pooled :
            /\ info[w].frame_queue = <<>>
            /\ IsNone(info[w].result)
            /\ ~info[w].result_event)
    /\ [](\A r \in StartResults :
            LET M == r[3]
                w == M.k.w
            IN M.k.pc # "wait" /\ M.k.acq = "pooled"
               /\ HasSession(M.sessions, r[1].session_id) =>
                   /\ SessionInfo(M.sessions, r[1].session_id) = w
                   /\ M.info[w].frame_queue = <<>>
                   /\ IsNone(M.info[w].result)
                   /\ ~M.info[w].result_event
                   /\ M.info[w].ready_event
                   /\ M.pc[w] = "ready_wait"
                   /\ M.routed[w] = <<>> /\ M.streamed[w] = <<>>)
    /\ [](\A w \in Registered :
            /\ IsPrefix(streamed[w], routed[w])
            /\ IsSuffix(QueueChunks(info[w].frame_queue), routed[w]))
    /\ [][\A w \in Workers :
            pc[w] = "ready_wait" /\ pc'[w] = "decode" =>
                info[w].ready_event /\ ~info'[w].ready_event]_vars
    /\ [][\A w \in 1..created :
            ~info[w].ready_event /\ info'[w].ready_event =>
                /\ k.pc = "idle" \/ (k.pc = "wait" /\ k.op = "start")
                /\ w \notin Pooled']_vars

\* a session runs on a worker from the pool; the earlier session of the
\* worker was finalized on silence and got a frame after that, which lay in
\* the queue when the worker was pooled; the thread has begun the decode of
\* the new session and has pulled the one frame routed to it
C25_SecondSessionAfterLeftover ==
    /\ reuse_transcribers /\ k.pc = "idle" /\ created = 1
    /\ Len(sessions) = 1 /\ sessions[1].info = 1
    /\ NotNone(info[1].recorder)
    /\ ~info[1].start_listening[1].stop_on_silence
    /\ pc[1] = "decode"
    /\ Len(routed[1]) = 1 /\ streamed[1] = routed[1]
    /\ info[1].frame_queue = <<>>

\* C22: audio_stream ends only at the sentinel: the decode of a worker
\* returns only when the item at the head of its queue is the sentinel, and
\* any other item at the head is pulled and yielded to the engine.
C22_StreamEndsAtSentinel ==
    \A w \in Workers :
        pc[w] = "decode" /\ Len(info[w].frame_queue) > 0 /\ Turn(w) =>
            LET item == Head(info[w].frame_queue)
            IN /\ (ENABLED \E r \in Results : WorkerTranscribed(w, r))
                     => IsNone(item)
               /\ NotNone(item) => ENABLED WorkerPull(w)

\* the session of worker w was started for another site than site
StartedElsewhere(w, site) ==
    /\ NotNone(info[w].start_listening)
    /\ info[w].start_listening[1].site_id # site

\* C23: the handler of a frame for a site leaves the queue, the recorder and
\* the audio buffer of every session that was started for another site as
\* they are, whether the frame names a session or not; and a frame that
\* names no session reaches every registered session of its site.
C23_FramesStayOnTheirSite ==
    \A M \in FrameResults :
        /\ \A w \in Registered :
              StartedElsewhere(w, M.k.site_id) =>
                  /\ M.info[w].frame_queue = info[w].frame_queue
                  /\ M.info[w].recorder = info[w].recorder
                  /\ M.info[w].audio_buffer = info[w].audio_buffer
                  /\ M.routed[w] = routed[w]
        /\ M.k.bcast =>
              /\ k.pc = "idle" /\ Len(sessions) > 0 =>
                    M.k.targets =
                        {w \in Registered : ~StartedElsewhere(w, M.k.site_id)}
              /\ \A w \in VisitedBy(M) : FrameReached(M, w)

\* a session of site A and a session of site B are registered; one frame
\* has been routed to the first and none to the second
C23_FrameForOneSiteOfTwo ==
    /\ k.pc = "idle" /\ Len(sessions) = 2
    /\ \E w, v \in Registered :
          /\ info[w].start_listening[1].site_id = "A"
          /\ info[v].start_listening[1].site_id = "B"
          /\ Len(routed[w]) = 1 /\ routed[v] = <<>>
          /\ info[v].frame_queue = <<>> /\ info[v].audio_buffer = Some(<<>>)

\* C26: the service is enabled exactly when no disable reason is
\* outstanding; a toggle-off adds its reason and disables, a toggle-on takes
\* its own reason away, or every reason when its reason is UNKNOWN.
C26_EnabledIffNoReasons ==
    /\ [](enabled <=> disabled_reasons = {})
    /\ [][\A reason \in Reasons :
            /\ ToggleOff(reason) =>
                  disabled_reasons' = disabled_reasons \cup {reason}
            /\ ToggleOn(reason) =>
                  disabled_reasons' =
                      IF reason = "UNKNOWN" THEN {}
                      ELSE disabled_reasons \ {reason}]_vars

\* two reasons are outstanding while a session is open
C26_TwoReasonsOutstanding ==
    /\ ~enabled
    /\ disabled_reasons = {"dialogueSession", "playAudio"}
    /\ Len(sessions) = 1

\* the handler of a frame has left the sessions, the workers and the pool
\* as they are and has yielded nothing
NothingDone(M) ==
    /\ M.sessions = sessions /\ M.free_transcribers = free_transcribers
    /\ M.info = info /\ M.routed = routed /\ M.emitted = emitted
    /\ M.out = <<>> /\ M.k.pc = "run"

\* C27: while the service is disabled the handler of an audio frame, with
\* or without a session id, changes nothing of any session and finalizes
\* none, and no handler of a frame is under way; a stop request still takes
\* its session out of the registry and a start request still acquires a
\* worker and registers its session.
C27_DisabledIgnoresAudio ==
    ~enabled =>
        /\ ~(k.pc = "wait" /\ k.op = "frame")
        /\ k.pc = "idle" =>
              /\ \A site \in Sites, f \in WavFrames, x \in ProcessOutcomes,
                    t \in Trims :
                    LET o == [w \in Workers |-> x]
                    IN /\ NothingDone(AudioFrameHandled(f, site, o, t))
                       /\ \A sid \in SessionIds :
                             NothingDone(AudioSessionFrameHandled(f, site, sid,
                                                                  o, t))
              /\ \A m \in StopMessages, t \in Trims :
                    HasSession(sessions, m.session_id) =>
                        ~HasSession(StopHandled(m, t).sessions, m.session_id)
              /\ \A m \in BusStartMessages :
                    ~HasSession(sessions, m.session_id)
                    /\ (created < MaxWorkers \/ FromPool(Machine)) =>
                        HasSession(StartHandled(m, "none", 0).sessions,
                                   m.session_id)

\* the service is disabled, and a stop request that was taken after the
\* service was disabled waits for the result of its session; another session
\* is open
C27_StopWhileDisabled ==
    /\ ~enabled
    /\ k.pc = "wait" /\ k.op = "stop"
    /\ Len(sessions) = 1
    /\ routed[k.w] = <<>> /\ routed[sessions[1].info] = <<>>

====
